---- MODULE Spec2Model ----
(***************************************************************************)
(* Model of the health-probe command line tool of main.go: the driver loop *)
(* of main, the probe executors pingHTTP and pingTCP, and the reporters    *)
(* printResult and printSummary.                                           *)
(*                                                                         *)
(* Durations are int64 nanoseconds as in Go's time.Duration.  Strings that *)
(* the code inspects character by character (the -type flag) are sequences *)
(* of ASCII codes; strings that are only carried around are TLA+ strings.  *)
(***************************************************************************)
EXTENDS Integers, Sequences, FiniteSets, TLC

(***************************************************************************)
(* Bounds of the model.                                                    *)
(***************************************************************************)
\* largest value of the -c flag that is explored
MaxCount == 2
\* largest length of the result sequence the summary is evaluated on alone
MaxN == 10

\* iterations after which an endless run of the loop is cut off
MaxIter == MaxCount + 1

(***************************************************************************)
(* Program constants.                                                      *)
(***************************************************************************)
\* time.Millisecond, in nanoseconds
Millisecond == 1000000
\* os.Exit(1)
ExitFailure == 1
\* pingCount of a continuous run
Unlimited == 0 - 1

\* the values of the -type flag, as ASCII codes
StrHttp  == <<104, 116, 116, 112>>
StrHttps == <<104, 116, 116, 112, 115>>
StrTcp   == <<116, 99, 112>>
StrIcmp  == <<105, 99, 109, 112>>
\* other values a user may pass: "Tcp", "ftp", "FTP"
StrTcpMixed  == <<84, 99, 112>>
StrFtp       == <<102, 116, 112>>
StrFTPUpper  == <<70, 84, 80>>

PingTypes == {StrHttp, StrHttps, StrTcp, StrIcmp,
              StrTcpMixed, StrFtp, StrFTPUpper}

Targets == {"", "example.com"}
Counts == (0 - 1) .. MaxCount

\* the nil error and the transport errors a probe can meet
NoError == "nil"
NetErrors == {"timeout"}

\* status codes a server may answer with
StatusCodes == {200, 301, 404, 500, 503}
\* wall-clock time of one network call, in nanoseconds
Elapsed == {1500000, 2600000}

(***************************************************************************)
(* What the network does on one call: an error, or a response (the status  *)
(* is 0 for a TCP dial, which has no status).                              *)
(***************************************************************************)
HTTPOutcomes ==
    [err : NetErrors, status : {0}, elapsed : Elapsed]
        \cup [err : {NoError}, status : StatusCodes, elapsed : Elapsed]

TCPOutcomes ==
    [err : NetErrors \cup {NoError}, status : {0}, elapsed : Elapsed]

(***************************************************************************)
(* strings.ToLower on ASCII: 'A'..'Z' are mapped to 'a'..'z'.              *)
(***************************************************************************)
ToLower(s) ==
    [i \in 1..Len(s) |-> IF s[i] \in 65..90 THEN s[i] + 32 ELSE s[i]]

\* a variant in which tcp is the default case of the switch
IsTCPTypeByDefault(t) == ToLower(t) \notin {StrHttp, StrHttps, StrIcmp}

\* the cases of the switch on strings.ToLower(*pingType)
IsHTTPType(t) == ToLower(t) \in {StrHttp, StrHttps}
IsTCPType(t) == ToLower(t) = StrTcp
IsICMPType(t) == ToLower(t) = StrIcmp
Supported(t) == IsHTTPType(t) \/ IsTCPType(t) \/ IsICMPType(t)

(***************************************************************************)
(* PingResult and the two probe executors.                                 *)
(***************************************************************************)
PingResult(tgt) ==
    [Target |-> tgt, Success |-> FALSE, ResponseTime |-> 0,
     StatusCode |-> 0, Error |-> NoError]

\* a variant that takes 4xx for failures
StatusOKBelow400(code) == code < 400

StatusOK(code) == code < 500

pingHTTP(tgt, net) ==
    LET result == [PingResult(tgt) EXCEPT !.ResponseTime = net.elapsed]
    IN  IF net.err # NoError
        THEN [result EXCEPT !.Error = net.err]
        ELSE [result EXCEPT !.StatusCode = net.status,
                            !.Success = StatusOK(net.status)]

pingTCP(tgt, net) ==
    LET result == [PingResult(tgt) EXCEPT !.ResponseTime = net.elapsed]
    IN  IF net.err # NoError
        THEN [result EXCEPT !.Error = net.err]
        ELSE [result EXCEPT !.Success = TRUE]

(***************************************************************************)
(* time.Duration.Round for a non-negative duration: the nearest multiple   *)
(* of m, halfway values rounded away from zero.                            *)
(***************************************************************************)
Round(d, m) ==
    LET r == d % m
    IN  IF r + r < m THEN d - r ELSE d + m - r

(***************************************************************************)
(* printResult: the line printed for one attempt.                          *)
(***************************************************************************)
printResult(result, seq) ==
    IF result.Success
    THEN IF result.StatusCode > 0
         THEN [seq |-> seq, form |-> "status", code |-> result.StatusCode,
               time |-> Round(result.ResponseTime, Millisecond),
               err |-> NoError]
         ELSE [seq |-> seq, form |-> "connect", code |-> 0,
               time |-> Round(result.ResponseTime, Millisecond),
               err |-> NoError]
    ELSE [seq |-> seq, form |-> "failed", code |-> 0, time |-> 0,
          err |-> result.Error]

(***************************************************************************)
(* printSummary.                                                           *)
(*                                                                         *)
(* The two percentages are float64 values in the code.  They are kept here *)
(* as the exact fraction num/den: for result sequences of the lengths      *)
(* explored a float64 quotient times 100 compares with 70, 90 and 100 as   *)
(* the exact fraction does.  A zero denominator is Go's NaN (0/0), which   *)
(* compares false with everything.                                         *)
(***************************************************************************)
Percent(part, total) == [num |-> part * 100, den |-> total]
IsNaN(p) == p.den = 0
PctEq(p, k) == ~IsNaN(p) /\ p.num = k * p.den
PctGE(p, k) == ~IsNaN(p) /\ p.num >= k * p.den

\* what fmt prints for a NaN, in place of a number of tenths
NaN == 0 - 1

(***************************************************************************)
(* fmt's "%.1f" of a percentage, as a number of tenths: the nearest tenth, *)
(* an exact tie going to the even one.                                     *)
(***************************************************************************)
FormatTenths(p) ==
    IF IsNaN(p) THEN NaN
    ELSE LET q == (p.num * 10) \div p.den
             r == (p.num * 10) % p.den
         IN  IF r + r < p.den THEN q
             ELSE IF r + r > p.den THEN q + 1
             ELSE IF q % 2 = 0 THEN q ELSE q + 1

\* the loop of printSummary over the results, from index i on
RECURSIVE MinMaxFrom(_, _, _)
MinMaxFrom(res, i, acc) ==
    IF i > Len(res) THEN acc
    ELSE LET r == res[i]
             next ==
                 IF ~r.Success THEN acc
                 ELSE IF acc.first
                 THEN [first |-> FALSE, minTime |-> r.ResponseTime,
                       maxTime |-> r.ResponseTime]
                 ELSE [first |-> FALSE,
                       minTime |-> IF r.ResponseTime < acc.minTime
                                   THEN r.ResponseTime ELSE acc.minTime,
                       maxTime |-> IF r.ResponseTime > acc.maxTime
                                   THEN r.ResponseTime ELSE acc.maxTime]
         IN  MinMaxFrom(res, i + 1, next)

\* a variant with the 90 and 70 boundaries excluded from their bands
HealthStatusStrict(successRate) ==
    IF PctEq(successRate, 100) THEN "excellent"
    ELSE IF PctGE(successRate, 90) /\ ~PctEq(successRate, 90) THEN "good"
    ELSE IF PctGE(successRate, 70) /\ ~PctEq(successRate, 70) THEN "fair"
    ELSE "poor"

\* the health verdict: "excellent", "good", "fair", "poor"
HealthStatus(successRate) ==
    IF PctEq(successRate, 100) THEN "excellent"
    ELSE IF PctGE(successRate, 90) THEN "good"
    ELSE IF PctGE(successRate, 70) THEN "fair"
    ELSE "poor"

\* the latency lines are printed only if successCount > 0
HasLatency(sc) == sc > 0

printSummary(res, sc, total) ==
    LET mm == MinMaxFrom(res, 1, [first |-> TRUE, minTime |-> 0, maxTime |-> 0])
        latency == HasLatency(sc)
    IN  [sent |-> Len(res),
         ok |-> sc,
         failed |-> Len(res) - sc,
         lossTenths |-> FormatTenths(Percent(Len(res) - sc, Len(res))),
         latency |-> latency,
         avgTime |-> IF latency THEN Round(total \div sc, Millisecond) ELSE 0,
         minTime |-> IF latency THEN Round(mm.minTime, Millisecond) ELSE 0,
         maxTime |-> IF latency THEN Round(mm.maxTime, Millisecond) ELSE 0,
         status |-> HealthStatus(Percent(sc, Len(res)))]

(***************************************************************************)
(* The state of main.                                                      *)
(***************************************************************************)
VARIABLES
    target,        \* flag -t
    pingType,      \* flag -type
    count,         \* flag -c
    continuous,    \* flag -continuous
    pc,            \* where main is
    pingCount,     \* count, or -1 for a continuous run
    iteration,     \* attempts made
    results,       \* the results, in order
    successCount,  \* results with Success
    totalTime,     \* sum of the ResponseTime of the successes
    lines,         \* the per-attempt lines printed
    notices,       \* ICMP notices printed
    summaries,     \* the summary blocks printed
    events,        \* probes, sleeps and summaries, in the order they happened
    exitCode       \* status of the process once it has ended

flags == <<target, pingType, count, continuous>>
vars == <<target, pingType, count, continuous, pc, pingCount, iteration,
          results, successCount, totalTime, lines, notices, summaries,
          events, exitCode>>

\* exitCode while the process runs
NotExited == 0 - 1

Init ==
    /\ target \in Targets
    /\ pingType \in PingTypes
    /\ count \in Counts
    /\ continuous \in BOOLEAN
    /\ pc = "start"
    /\ pingCount = 0
    /\ iteration = 0
    /\ results = <<>>
    /\ successCount = 0
    /\ totalTime = 0
    /\ lines = <<>>
    /\ notices = 0
    /\ summaries = <<>>
    /\ events = <<>>
    /\ exitCode = NotExited

\* main, lines 42-46: no target
MissingTarget ==
    /\ pc = "start"
    /\ target = ""
    /\ pc' = "exited"
    /\ exitCode' = ExitFailure
    /\ UNCHANGED <<flags, pingCount, iteration, results, successCount,
                   totalTime, lines, notices, summaries, events>>

\* a variant that forgets the -continuous flag
InitialPingCountOfCount(cnt, cont) == cnt

\* the value pingCount gets from the flags
InitialPingCount(cnt, cont) == IF cont THEN Unlimited ELSE cnt

\* main, lines 48-59: header, counters, pingCount
Start ==
    /\ pc = "start"
    /\ target # ""
    /\ pingCount' = InitialPingCount(count, continuous)
    /\ results' = <<>>
    /\ successCount' = 0
    /\ totalTime' = 0
    /\ iteration' = 0
    /\ pc' = "loop"
    /\ UNCHANGED <<flags, lines, notices, summaries, events, exitCode>>

\* a variant that takes a count of zero for a bound
StopTestNonNegative(pcnt, iter) == pcnt >= 0 /\ iter >= pcnt

\* the stop test at the head of the loop
StopTest(pcnt, iter) == pcnt > 0 /\ iter >= pcnt

\* main, lines 60-63
LoopHead ==
    /\ pc = "loop"
    /\ pc' = IF StopTest(pingCount, iteration) THEN "summary" ELSE "probe"
    /\ UNCHANGED <<flags, pingCount, iteration, results, successCount,
                   totalTime, lines, notices, summaries, events, exitCode>>

\* main, lines 74-76: the default case of the switch
Unsupported ==
    /\ pc = "probe"
    /\ ~Supported(pingType)
    /\ pc' = "exited"
    /\ exitCode' = ExitFailure
    /\ UNCHANGED <<flags, pingCount, iteration, results, successCount,
                   totalTime, lines, notices, summaries, events>>

\* variants that count every result
CountSuccessAlways(result, sc) == sc + 1
AddTimeAlways(result, total) == total + result.ResponseTime

\* the counters after a result
CountSuccess(result, sc) == IF result.Success THEN sc + 1 ELSE sc
AddTime(result, total) ==
    IF result.Success THEN total + result.ResponseTime ELSE total

\* main, lines 78-87: record and print a result, count it
Record(result) ==
    /\ results' = Append(results, result)
    /\ lines' = Append(lines, printResult(result, iteration + 1))
    /\ successCount' = CountSuccess(result, successCount)
    /\ totalTime' = AddTime(result, totalTime)
    /\ iteration' = iteration + 1
    /\ events' = Append(events, "probe")
    /\ pc' = "pause"
    /\ UNCHANGED <<flags, pingCount, summaries, exitCode>>

\* main, lines 65-87, an HTTP(S) attempt
ProbeHTTP ==
    /\ pc = "probe"
    /\ iteration < MaxIter
    /\ IsHTTPType(pingType)
    /\ \E net \in HTTPOutcomes : Record(pingHTTP(target, net))
    /\ UNCHANGED notices

\* main, lines 65-87, a TCP attempt
ProbeTCP ==
    /\ pc = "probe"
    /\ iteration < MaxIter
    /\ IsTCPType(pingType)
    /\ \E net \in TCPOutcomes : Record(pingTCP(target, net))
    /\ UNCHANGED notices

\* main, lines 65-87, an ICMP attempt: a notice, then a TCP attempt
ProbeICMP ==
    /\ pc = "probe"
    /\ iteration < MaxIter
    /\ IsICMPType(pingType)
    /\ notices' = notices + 1
    /\ \E net \in TCPOutcomes : Record(pingTCP(target, net))

\* variants that sleep after the last attempt, and on a count of zero
SleepTestAfterLast(pcnt, iter) == pcnt < 0 \/ iter <= pcnt
SleepTestOnZero(pcnt, iter) == pcnt <= 0 \/ iter < pcnt

\* the test that guards time.Sleep
SleepTest(pcnt, iter) == pcnt < 0 \/ iter < pcnt

\* main, lines 89-91
Pause ==
    /\ pc = "pause"
    /\ events' = IF SleepTest(pingCount, iteration)
                 THEN Append(events, "sleep") ELSE events
    /\ pc' = "loop"
    /\ UNCHANGED <<flags, pingCount, iteration, results, successCount,
                   totalTime, lines, notices, summaries, exitCode>>

\* main, line 94, and the return of main
Summary ==
    /\ pc = "summary"
    /\ summaries' = Append(summaries,
                           printSummary(results, successCount, totalTime))
    /\ events' = Append(events, "summary")
    /\ pc' = "done"
    /\ exitCode' = 0
    /\ UNCHANGED <<flags, pingCount, iteration, results, successCount,
                   totalTime, lines, notices>>

Next ==
    \/ MissingTarget
    \/ Start
    \/ LoopHead
    \/ Unsupported
    \/ ProbeHTTP
    \/ ProbeTCP
    \/ ProbeICMP
    \/ Pause
    \/ Summary

Spec == Init /\ [][Next]_vars

\* main is one thread and every call in it returns: a step that can be
\* taken is taken
FairSpec == Spec /\ WF_vars(Next)

(***************************************************************************)
(* The summary on its own: main has made n attempts of a bounded TCP run,  *)
(* k of them successful, and is about to print the summary.                *)
(***************************************************************************)
TCPNet(ok, i) ==
    [err |-> IF ok THEN NoError ELSE "timeout", status |-> 0,
     elapsed |-> IF i % 2 = 1 THEN 1500000 ELSE 2600000]

RunResults(n, k) == [i \in 1..n |-> pingTCP("example.com", TCPNet(i <= k, i))]

RECURSIVE SumTime(_, _)
SumTime(res, i) ==
    IF i > Len(res) THEN 0
    ELSE AddTime(res[i], 0) + SumTime(res, i + 1)

InitSummary ==
    \E n \in 1..MaxN : \E k \in 0..n :
        /\ target = "example.com"
        /\ pingType = StrTcp
        /\ count = n
        /\ continuous = FALSE
        /\ pc = "summary"
        /\ pingCount = n
        /\ iteration = n
        /\ results = RunResults(n, k)
        /\ successCount = k
        /\ totalTime = SumTime(RunResults(n, k), 1)
        /\ lines = [i \in 1..n |-> printResult(RunResults(n, k)[i], i)]
        /\ notices = 0
        /\ summaries = <<>>
        /\ events = [i \in 1..(2 * n - 1) |->
                        IF i % 2 = 1 THEN "probe" ELSE "sleep"]
        /\ exitCode = NotExited

NextSummary == Summary

SummarySpec == InitSummary /\ [][NextSummary]_vars

(***************************************************************************)
(* Vocabulary of the properties.                                           *)
(***************************************************************************)
SupportedNames == {StrHttp, StrHttps, StrTcp, StrIcmp}
NameSupported == ToLower(pingType) \in SupportedNames
NameHTTP == ToLower(pingType) \in {StrHttp, StrHttps}

\* the three kinds of run of the driver loop
BoundedRun == target # "" /\ NameSupported /\ ~continuous /\ count >= 1
ContinuousRun == target # "" /\ NameSupported /\ continuous
NonPositiveRun == target # "" /\ NameSupported /\ ~continuous /\ count <= 0

IsPrefix(s, t) == Len(s) <= Len(t) /\ \A i \in 1..Len(s) : s[i] = t[i]
Last(s) == s[Len(s)]

\* n probes with a sleep between two of them, then the summary
BoundedPattern(n) ==
    [i \in 1..(2 * n) |->
        IF i = 2 * n THEN "summary"
        ELSE IF i % 2 = 1 THEN "probe" ELSE "sleep"]

\* probe, sleep, probe, sleep, ...
Alternating(n) == [i \in 1..n |-> IF i % 2 = 1 THEN "probe" ELSE "sleep"]

NumEvents(e) == Cardinality({i \in 1..Len(events) : events[i] = e})
Successes == {i \in 1..Len(results) : results[i].Success}
Failures == {i \in 1..Len(results) : ~results[i].Success}

RECURSIVE SuccessTime(_)
SuccessTime(idx) ==
    IF idx = {} THEN 0
    ELSE LET i == CHOOSE j \in idx : TRUE
         IN  results[i].ResponseTime + SuccessTime(idx \ {i})

Abs(x) == IF x < 0 THEN 0 - x ELSE x

\* every probe is followed by a sleep before the loop goes on
SleepsAfterEveryProbe ==
    /\ IsPrefix(events, Alternating(2 * MaxIter))
    /\ NumEvents("probe") = iteration
    /\ pc \in {"loop", "probe"} => Len(events) = 2 * iteration
    /\ pc = "pause" => Len(events) = 2 * iteration - 1

\* the loop has not stopped by itself
NeverStops ==
    /\ pc \in {"start", "loop", "probe", "pause"}
    /\ summaries = <<>>
    /\ exitCode = NotExited
    /\ Len(results) = iteration

(***************************************************************************)
(* C1: a bounded run (continuous=false, count N >= 1, supported protocol)  *)
(* makes exactly N probes whatever their outcomes, with one sleep between  *)
(* two consecutive probes and none after the last, then prints the summary *)
(* once and ends; and it does end.                                         *)
(***************************************************************************)
C1_BoundedShape ==
    BoundedRun =>
        /\ IsPrefix(events, BoundedPattern(count))
        /\ Len(results) = NumEvents("probe")
        /\ Len(lines) = Len(results)
        /\ pc # "exited"
        /\ pc = "done" <=> events = BoundedPattern(count)
        /\ pc = "done" =>
              /\ Len(results) = count
              /\ NumEvents("probe") = count
              /\ NumEvents("sleep") = count - 1
              /\ Len(summaries) = 1
              /\ exitCode = 0

C1_BoundedRun ==
    /\ []C1_BoundedShape
    /\ (BoundedRun ~> pc = "done")

C1_Witness ==
    /\ BoundedRun
    /\ pc = "done"
    /\ count >= 2
    /\ Failures # {}
    /\ Successes # {}
    /\ ~results[1].Success

(***************************************************************************)
(* C2: with a protocol name that is, lower-cased, none of http, https,     *)
(* tcp, icmp, the process ends with exit status 1 before any probe: no     *)
(* result, no per-attempt line, no summary, for every count and in both    *)
(* modes.                                                                  *)
(***************************************************************************)
C2_NothingProbed ==
    ~NameSupported =>
        /\ results = <<>>
        /\ lines = <<>>
        /\ summaries = <<>>
        /\ events = <<>>
        /\ notices = 0
        /\ iteration = 0
        /\ pc \in {"start", "loop", "probe", "exited"}
        /\ pc = "exited" <=> exitCode = ExitFailure
        /\ exitCode \in {NotExited, ExitFailure}

C2_Unsupported ==
    /\ []C2_NothingProbed
    /\ (~NameSupported ~> (pc = "exited" /\ exitCode = ExitFailure))

C2_Witness ==
    /\ target # ""
    /\ pingType = StrFtp
    /\ continuous
    /\ count = 2
    /\ pc = "exited"
    /\ exitCode = ExitFailure

(***************************************************************************)
(* C3: a continuous run with a supported protocol never stops by itself,   *)
(* whatever count is: after every probe it sleeps and probes again, the    *)
(* summary is never reached, every K-th probe eventually happens (up to    *)
(* the MaxIter-th, where the model cuts the run off), and at any point the *)
(* probes made are exactly the iterations made.                            *)
(***************************************************************************)
C3_ContinuousRun ==
    /\ [](ContinuousRun => NeverStops /\ SleepsAfterEveryProbe)
    /\ (ContinuousRun ~> NumEvents("probe") >= MaxIter)

C3_Witness ==
    /\ ContinuousRun
    /\ count = 1
    /\ iteration = MaxIter
    /\ pc = "probe"
    /\ Failures # {}
    /\ Last(events) = "sleep"

(***************************************************************************)
(* C4: after N attempts the result sequence has length N and the success   *)
(* counter is the number of successful results in it; the summary reports  *)
(* sent = N, ok + failed = N, and as loss the percentage (N - ok) / N *    *)
(* 100 to the nearest tenth.                                               *)
(***************************************************************************)
C4_Totals ==
    /\ Len(results) = iteration
    /\ successCount = Cardinality(Successes)
    /\ \A j \in 1..Len(summaries) :
          LET s == summaries[j]
              n == Len(results)
          IN  /\ s.sent = n
              /\ s.ok = Cardinality(Successes)
              /\ s.failed = Cardinality(Failures)
              /\ s.ok + s.failed = n
              /\ 2 * Abs(s.lossTenths * n - (n - s.ok) * 1000) <= n

C4_Witness ==
    /\ pc = "done"
    /\ Len(summaries) = 1
    /\ Cardinality(Successes) = 1
    /\ Cardinality(Failures) = 1

(***************************************************************************)
(* C5: an HTTP(S) result that carries a response is a success exactly when *)
(* its status code is below 500 (404 and 301 succeed, 500 and 503 fail);   *)
(* one without a response is a failure with its error set.                 *)
(***************************************************************************)
C5_HTTPSuccess ==
    NameHTTP =>
        \A i \in 1..Len(results) :
            LET r == results[i]
            IN  /\ r.StatusCode > 0 =>
                      /\ r.Success <=> r.StatusCode < 500
                      /\ r.StatusCode \in {301, 404} => r.Success
                      /\ r.StatusCode \in {500, 503} => ~r.Success
                      /\ r.Error = NoError
                /\ r.StatusCode = 0 => ~r.Success /\ r.Error # NoError

C5_Witness ==
    /\ NameHTTP
    /\ Len(results) = 3
    /\ results[1].StatusCode = 404 /\ results[1].Success
    /\ results[2].StatusCode = 503 /\ ~results[2].Success
    /\ results[3].StatusCode = 0 /\ results[3].Error = "timeout"

(***************************************************************************)
(* C6: the verdict follows the success rate ok/N: 100% is "excellent", at  *)
(* least 90% and below 100% is "good", at least 70% and below 90% is       *)
(* "fair", below 70% is "poor"; 9 of 10 is "good" and 7 of 10 is "fair".   *)
(***************************************************************************)
C6_Verdict ==
    \A j \in 1..Len(summaries) :
        LET s == summaries[j]
            ok == Cardinality(Successes)
            n == Len(results)
        IN  /\ n >= 1
            /\ ok = n => s.status = "excellent"
            /\ (ok < n /\ 10 * ok >= 9 * n) => s.status = "good"
            /\ (10 * ok < 9 * n /\ 10 * ok >= 7 * n) => s.status = "fair"
            /\ 10 * ok < 7 * n => s.status = "poor"
            /\ (n = 10 /\ ok = 9) => s.status = "good"
            /\ (n = 10 /\ ok = 7) => s.status = "fair"

C6_Witness ==
    /\ Len(summaries) = 1
    /\ Len(results) = 10
    /\ successCount = 9
    /\ summaries[1].status = "good"

(***************************************************************************)
(* C7: the latency accumulator is the sum of the response times of the     *)
(* successful results only; the average the summary shows is that sum      *)
(* divided by the number of successes, to the millisecond; without a       *)
(* success no average, minimum or maximum is printed.                      *)
(***************************************************************************)
C7_Average ==
    /\ totalTime = SuccessTime(Successes)
    /\ \A j \in 1..Len(summaries) :
          LET s == summaries[j]
              k == Cardinality(Successes)
          IN  /\ s.latency <=> k > 0
              /\ k > 0 =>
                    /\ s.avgTime % Millisecond = 0
                    /\ 2 * Abs(s.avgTime * k - SuccessTime(Successes))
                          <= Millisecond * k
                    /\ \A i \in Successes :
                          /\ s.minTime <= Round(results[i].ResponseTime,
                                                Millisecond)
                          /\ s.maxTime >= Round(results[i].ResponseTime,
                                                Millisecond)

C7_Witness ==
    /\ pc = "done"
    /\ Len(results) = 2
    /\ results[1].Success /\ results[1].ResponseTime = 1500000
    /\ ~results[2].Success /\ results[2].ResponseTime = 2600000
    /\ summaries[1].latency
    /\ summaries[1].avgTime = 2000000

C7_WitnessNoLatency ==
    /\ pc = "done"
    /\ Successes = {}
    /\ ~summaries[1].latency

(***************************************************************************)
(* C8: every result is printed in one of three forms, and the failed form  *)
(* carries the error of the result: a result with success=false has its    *)
(* error set, a result with success=true has none.                         *)
(***************************************************************************)
C8_FailureHasError ==
    \A i \in 1..Len(results) :
        /\ results[i].Success => results[i].Error = NoError
        /\ ~results[i].Success => results[i].Error # NoError
        /\ lines[i].form = "failed" => lines[i].err # NoError

\* what does hold: a success has no error, and the form follows the result
C8_SuccessHasNoError ==
    \A i \in 1..Len(results) :
        /\ results[i].Success => results[i].Error = NoError
        /\ lines[i].form \in {"status", "connect", "failed"}
        /\ lines[i].form = "failed" <=> ~results[i].Success
        /\ lines[i].form = "status" <=>
              (results[i].Success /\ results[i].StatusCode > 0)

(***************************************************************************)
(* C9: with continuous=false and count <= 0 the stop test is never true,   *)
(* and the loop is said to probe and sleep for ever as a continuous run    *)
(* does.                                                                   *)
(***************************************************************************)
C9_AsContinuous ==
    NonPositiveRun => NeverStops /\ SleepsAfterEveryProbe

(***************************************************************************)
(* C9, amended: with continuous=false and count <= 0 the loop never stops  *)
(* by itself and never prints the summary; for count < 0 it sleeps after   *)
(* every probe as a continuous run does, for count = 0 it never sleeps;    *)
(* the loop stops by itself only when continuous=false and count >= 1.     *)
(***************************************************************************)
C9_NonPositiveShape ==
    /\ NonPositiveRun =>
          /\ NeverStops
          /\ count < 0 => SleepsAfterEveryProbe
          /\ count = 0 =>
                /\ NumEvents("sleep") = 0
                /\ NumEvents("probe") = iteration
    /\ pc \in {"summary", "done"} => BoundedRun

C9_NonPositive ==
    /\ []C9_NonPositiveShape
    /\ (NonPositiveRun ~> NumEvents("probe") >= MaxIter)

C9_Witness ==
    /\ NonPositiveRun
    /\ count = 0
    /\ iteration = MaxIter
    /\ pc = "probe"
    /\ events = [i \in 1..MaxIter |-> "probe"]

(***************************************************************************)
(* C10: the summary is only ever produced from a non-empty result          *)
(* sequence: when printSummary is reached at least one probe has been      *)
(* recorded, so its two percentages are never 0/0.                         *)
(***************************************************************************)
C10_NonEmpty ==
    /\ pc \in {"summary", "done"} => Len(results) >= 1 /\ iteration >= 1
    /\ \A j \in 1..Len(summaries) :
          /\ summaries[j].sent >= 1
          /\ summaries[j].lossTenths # NaN
          /\ summaries[j].lossTenths \in 0..1000

C10_Witness ==
    /\ pc = "done"
    /\ count = 1
    /\ Len(results) = 1
    /\ summaries[1].sent = 1

====
